---- MODULE Spec2Model ----
(***************************************************************************)
(* State-machine model of VectorStoreManager (src/src/vector_store.py):    *)
(* the on-disk knowledge base (document directories, chunks.jsonl, the     *)
(* kb.faiss / id_map.pkl pair), the in-memory index, id_map and document   *)
(* cache, and the add_document / delete_document / search / _load /        *)
(* _save_index code paths, step by step so that a crash or a concurrent    *)
(* search can fall between two steps.                                      *)
(*                                                                         *)
(* Strings are sequences of one-character strings; a dict is a function;   *)
(* a vector is one integer and the L2 distance is the squared difference.  *)
(***************************************************************************)
EXTENDS Integers, Sequences, FiniteSets, TLC

\* ------------------------------------------------------------------ bounds

\* How many times uuid.uuid4() is drawn (documents ever created).
MaxDocs == 2

\* Longest operation_history.log the model follows.
MaxLog == 3

\* The values of k search is called with.
Ks == {1, 2}

\* search asks the index for k * 5 neighbours (vector_store.py:213).
OversampleFactor == 5

\* ----------------------------------------------------------------- strings

\* The characters in use, in code-point order (str comparison is by code point).
Alphabet == <<"-", "/", "0", "1", "2", "3", "4", "5", "6", "7", "8", "9",
              "A", "B", "T", "a", "b", "c", "d", "e", "t">>

CodePoint == [c \in {Alphabet[i] : i \in 1..Len(Alphabet)} |->
                 CHOOSE i \in 1..Len(Alphabet) : Alphabet[i] = c]

Ord(c) == CodePoint[c]

\* str.lower() on one character, and on a string.
LowerChar(c) == CASE c = "A" -> "a" [] c = "B" -> "b" [] c = "T" -> "t" [] OTHER -> c

Lower(s) == [i \in 1..Len(s) |-> LowerChar(s[i])]

\* mapping.startswith(doc_id)
StartsWith(s, p) == Len(p) <= Len(s) /\ SubSeq(s, 1, Len(p)) = p

\* value.lower() in text.lower(): substring test
Contains(s, sub) ==
    \E i \in 0..(Len(s) - Len(sub)) : SubSeq(s, i + 1, i + Len(sub)) = sub

\* Python's str < str : lexicographic by code point, the shorter prefix first.
StrLt(a, b) ==
    \/ \E i \in 1..Len(a) :
          /\ i <= Len(b)
          /\ SubSeq(a, 1, i - 1) = SubSeq(b, 1, i - 1)
          /\ Ord(a[i]) < Ord(b[i])
    \/ Len(a) < Len(b) /\ SubSeq(b, 1, Len(a)) = a

StrLe(a, b) == a = b \/ StrLt(a, b)

\* str(i) of a small non-negative integer and int(s) back.
Digits == <<"0", "1", "2", "3", "4", "5", "6", "7", "8", "9">>

RECURSIVE IntToStr(_)
IntToStr(n) == IF n < 10 THEN <<Digits[n + 1]>>
               ELSE IntToStr(n \div 10) \o <<Digits[(n % 10) + 1]>>

RECURSIVE StrToInt(_)
StrToInt(s) == IF Len(s) = 0 THEN 0
               ELSE 10 * StrToInt(SubSeq(s, 1, Len(s) - 1)) + (Ord(s[Len(s)]) - Ord("0"))

\* f"{doc_id}/{i}"
Mapping(doc_id, i) == doc_id \o <<"/">> \o IntToStr(i)

\* mapping.split("/") for a mapping holding one slash: the two parts.
SlashPos(m) == CHOOSE i \in 1..Len(m) : m[i] = "/" /\ \A j \in 1..(i - 1) : m[j] # "/"

SplitDoc(m) == SubSeq(m, 1, SlashPos(m) - 1)

SplitIndex(m) == StrToInt(SubSeq(m, SlashPos(m) + 1, Len(m)))

\* ------------------------------------------------------------ values, chunks

\* A metadata or filter value: a str or a list of str.
StrVal(s) == [isStr |-> TRUE, s |-> s, l |-> <<>>]

ListVal(l) == [isStr |-> FALSE, s |-> <<>>, l |-> l]

\* dict.get(key) is None
NoneVal == [isStr |-> FALSE, s |-> <<"-">>, l |-> <<>>]

Get(d, key) == IF key \in DOMAIN d THEN d[key] ELSE NoneVal

\* Python truthiness of a value returned by dict.get
Truthy(v) == v # NoneVal /\ (IF v.isStr THEN v.s # <<>> ELSE v.l # <<>>)

\* The chunks the ingestion pipeline hands over: {text, metadata}.
Chunk1 == [text |-> <<"A", "b">>,
           metadata |-> [k \in {"author", "expiration_date", "ai_tags"} |->
               CASE k = "author" -> StrVal(<<"T">>)
                 [] k = "expiration_date" -> StrVal(<<"2", "0", "-", "0", "1">>)
                 [] OTHER -> ListVal(<< <<"a">>, <<"b">> >>)]]

Chunk2 == [text |-> <<"c", "d">>,
           metadata |-> [k \in {"author"} |-> StrVal(<<"B">>)]]

Chunk3 == [text |-> <<"c", "e">>,
           metadata |-> [k \in {"author", "expiration_date"} |->
               CASE k = "author" -> StrVal(<<"T">>)
                 [] OTHER -> StrVal(<<"3", "0", "-", "0", "1">>)]]

ChunkPool == {Chunk1, Chunk2, Chunk3}

\* The chunk lists add_document is called with.
ChunkLists == {<<>>, <<Chunk1>>, <<Chunk2, Chunk3>>}

\* json.dumps(chunk) : one line of chunks.jsonl, the members as key/value pairs.
JsonDumps(chunk) ==
    [text |-> chunk.text,
     members |-> {<<k, chunk.metadata[k]>> : k \in DOMAIN chunk.metadata}]

\* json.loads(line)
JsonLoads(line) ==
    [text |-> line.text,
     metadata |-> [k \in {p[1] : p \in line.members} |->
                     (CHOOSE p \in line.members : p[1] = k)[2]]]

\* ---------------------------------------------------------------- _embed

RECURSIVE TextCode(_)
TextCode(t) == IF Len(t) = 0 THEN 0
               ELSE (TextCode(SubSeq(t, 1, Len(t) - 1)) * 3 + Ord(t[Len(t)])) % 11

\* The vector the embedding service returns for a text.
ServiceVec(t) == TextCode(t)

\* The fallback: a vector seeded by the sha256 digest of the text.
FallbackVec(t) == (TextCode(t) * 5 + 2) % 11

\* _embed: the service's vector, or the fallback when the call raised.
Embed(t, failed) == IF failed THEN FallbackVec(t) ELSE ServiceVec(t)

\* ------------------------------------------------------- the FAISS index

\* self.index is None, or an IndexIDMap over IndexFlatL2: the (id, vector)
\* entries in the order they were added.
NoIndex == [isNone |-> TRUE, ents |-> <<>>]

\* faiss.IndexIDMap(faiss.IndexFlatL2(dim)) : a new, empty index
EmptyIndex == [isNone |-> FALSE, ents |-> <<>>]

IndexIds(ix) == {ix.ents[i].id : i \in 1..Len(ix.ents)}

\* index.add_with_ids(vectors, ids) with ids = arange(start_id, start_id + len)
AddWithIds(ix, vectors, start_id) ==
    [isNone |-> FALSE,
     ents |-> ix.ents \o [i \in 1..Len(vectors) |->
                             [id |-> start_id + i - 1, vec |-> vectors[i]]]]

\* A remove_ids that removes nothing.
RemoveIdsKeepsAll(ix, ids) == [isNone |-> FALSE, ents |-> ix.ents]

\* index.remove_ids(ids): the other entries, in their order
RemoveIds(ix, ids) ==
    [isNone |-> FALSE, ents |-> SelectSeq(ix.ents, LAMBDA e : e.id \notin ids)]

\* Squared L2 distance of two one-dimensional vectors.
Dist(a, b) == (a - b) * (a - b)

\* index.search(query, n): n (distance, id) pairs by ascending distance, equal
\* distances in insertion order, padded with id -1 when the index is shorter.
IndexSearch(ix, qv, n) ==
    LET m == Len(ix.ents)
        d == [i \in 1..m |-> Dist(ix.ents[i].vec, qv)]
        before(i, j) == d[i] < d[j] \/ (d[i] = d[j] /\ i < j)
        order == [r \in 1..m |->
                    CHOOSE j \in 1..m : Cardinality({i \in 1..m : before(i, j)}) = r - 1]
    IN  [r \in 1..n |-> IF r <= m THEN [dist |-> d[order[r]], id |-> ix.ents[order[r]].id]
                        ELSE [dist |-> -1, id |-> -1]]

\* --------------------------------------------------------- _match_filters

\* The conditions with expiration_date_start also requiring a date.
FilterCondStartNeedsDate(chunk, key, value) ==
    LET meta == chunk.metadata
        exp  == Get(meta, "expiration_date")
    IN  CASE key = "expiration_date_gt" ->
               IF ~Truthy(exp) THEN FALSE ELSE ~StrLe(exp.s, value.s)
          [] key = "expiration_date_start" ->
               Truthy(exp) /\ ~StrLt(exp.s, value.s)
          [] key = "expiration_date_end" ->
               ~(Truthy(exp) /\ StrLt(value.s, exp.s))
          [] key = "author" -> Get(meta, "author") = value
          [] key = "tag" ->
               LET tags == IF "ai_tags" \in DOMAIN meta THEN meta["ai_tags"].l ELSE <<>>
                   has(v) == \E i \in 1..Len(tags) : tags[i] = v
               IN  IF value.isStr THEN has(value.s)
                   ELSE \E j \in 1..Len(value.l) : has(value.l[j])
          [] key = "keyword" -> Contains(Lower(chunk.text), Lower(value.s))
          [] OTHER -> Get(meta, key) = value

\* One key of the filter: TRUE unless this key makes _match_filters return False.
FilterCond(chunk, key, value) ==
    LET meta == chunk.metadata
        exp  == Get(meta, "expiration_date")
    IN  CASE key = "expiration_date_gt" ->
               IF ~Truthy(exp) THEN FALSE ELSE ~StrLe(exp.s, value.s)
          [] key = "expiration_date_start" ->
               ~(Truthy(exp) /\ StrLt(exp.s, value.s))
          [] key = "expiration_date_end" ->
               ~(Truthy(exp) /\ StrLt(value.s, exp.s))
          [] key = "author" -> Get(meta, "author") = value
          [] key = "tag" ->
               LET tags == IF "ai_tags" \in DOMAIN meta THEN meta["ai_tags"].l ELSE <<>>
                   has(v) == \E i \in 1..Len(tags) : tags[i] = v
               IN  IF value.isStr THEN has(value.s)
                   ELSE \E j \in 1..Len(value.l) : has(value.l[j])
          [] key = "keyword" -> Contains(Lower(chunk.text), Lower(value.s))
          [] OTHER -> Get(meta, key) = value

\* The loop over filters.items(): the first failing key returns False.
RECURSIVE MatchFrom(_, _, _)
MatchFrom(chunk, filters, i) ==
    IF i > Len(filters) THEN TRUE
    ELSE IF ~FilterCond(chunk, filters[i].key, filters[i].value) THEN FALSE
    ELSE MatchFrom(chunk, filters, i + 1)

\* _match_filters(chunk, filters); filters is None or {} when the sequence is empty.
MatchFilters(chunk, filters) ==
    IF Len(filters) = 0 THEN TRUE ELSE MatchFrom(chunk, filters, 1)

\* The filter dicts search is called with, as (key, value) items in dict order.
FilterSpecs ==
    { <<>>,
      <<[key |-> "author", value |-> StrVal(<<"T">>)]>>,
      <<[key |-> "expiration_date_gt", value |-> StrVal(<<"2", "5", "-", "0", "1">>)]>> }

\* ----------------------------------------------------------------- search

\* The loop body without the len(results) >= k test.
SearchVisitNoLimit(acc, nb, idmap, docs, k, filters) ==
    IF nb.id = -1 THEN acc
    ELSE IF nb.id \notin DOMAIN idmap THEN acc
    ELSE LET mapping == idmap[nb.id] IN
    IF mapping = <<>> \/ mapping \in acc.seen THEN acc
    ELSE LET doc_id == SplitDoc(mapping)
             chunk_index == SplitIndex(mapping)
         IN
    IF doc_id \notin DOMAIN docs THEN acc
    ELSE LET doc_chunks == docs[doc_id] IN
    IF doc_chunks = <<>> \/ chunk_index >= Len(doc_chunks) THEN acc
    ELSE LET chunk == doc_chunks[chunk_index + 1] IN
    IF ~MatchFilters(chunk, filters) THEN acc
    ELSE [results |-> Append(acc.results,
                             [text |-> chunk.text, metadata |-> chunk.metadata,
                              score |-> nb.dist, doc_id |-> doc_id]),
          seen |-> acc.seen \cup {mapping}]

\* The body of search's loop for one (dist, faiss_id) pair; acc holds the
\* locals results and seen_mappings.
SearchVisit(acc, nb, idmap, docs, k, filters) ==
    IF nb.id = -1 \/ Len(acc.results) >= k THEN acc
    ELSE IF nb.id \notin DOMAIN idmap THEN acc
    ELSE LET mapping == idmap[nb.id] IN
    IF mapping = <<>> \/ mapping \in acc.seen THEN acc
    ELSE LET doc_id == SplitDoc(mapping)
             chunk_index == SplitIndex(mapping)
         IN
    IF doc_id \notin DOMAIN docs THEN acc
    ELSE LET doc_chunks == docs[doc_id] IN
    IF doc_chunks = <<>> \/ chunk_index >= Len(doc_chunks) THEN acc
    ELSE LET chunk == doc_chunks[chunk_index + 1] IN
    IF ~MatchFilters(chunk, filters) THEN acc
    ELSE [results |-> Append(acc.results,
                             [text |-> chunk.text, metadata |-> chunk.metadata,
                              score |-> nb.dist, doc_id |-> doc_id]),
          seen |-> acc.seen \cup {mapping}]

\* The loop from neighbour i on.
RECURSIVE SearchLoop(_, _, _, _, _, _, _)
SearchLoop(acc, nbs, i, idmap, docs, k, filters) ==
    IF i > Len(nbs) THEN acc
    ELSE SearchLoop(SearchVisit(acc, nbs[i], idmap, docs, k, filters),
                    nbs, i + 1, idmap, docs, k, filters)

\* A guard that looks at the documents only.
SearchEmptyIgnoresIndex(ix, docs) == DOMAIN docs = {}

\* search's guard: no index, or no documents
SearchEmpty(ix, docs) == ix.isNone \/ DOMAIN docs = {}

\* A search that asks the index for k neighbours only.
SearchResultNoOversample(ix, idmap, docs, qv, k, filters) ==
    IF SearchEmpty(ix, docs) THEN <<>>
    ELSE SearchLoop([results |-> <<>>, seen |-> {}],
                    IndexSearch(ix, qv, k), 1,
                    idmap, docs, k, filters).results

\* search(query, k, filters) run in one piece on a given store state, qv being
\* the embedded query.
SearchResult(ix, idmap, docs, qv, k, filters) ==
    IF SearchEmpty(ix, docs) THEN <<>>
    ELSE SearchLoop([results |-> <<>>, seen |-> {}],
                    IndexSearch(ix, qv, k * OversampleFactor), 1,
                    idmap, docs, k, filters).results

\* doc_id, chunk_index_str = mapping.split("/") and int(chunk_index_str) go
\* through: one slash, and decimal digits after it.
MappingOk(m) ==
    LET slashes == {i \in 1..Len(m) : m[i] = "/"}
    IN  /\ Cardinality(slashes) = 1
        /\ \A i \in slashes :
              /\ i < Len(m)
              /\ \A j \in (i + 1)..Len(m) : \E n \in 1..Len(Digits) : m[j] = Digits[n]

\* search raises instead of returning: past the guard self.index is None
\* (self.index.search on None), or the loop comes, with fewer than k results,
\* to a mapping that the unpacking of split or int() rejects.
SearchRaises(ix, idmap, docs, qv, k, filters) ==
    /\ ~SearchEmpty(ix, docs)
    /\ \/ ix.isNone
       \/ \E j \in DOMAIN idmap :
             /\ idmap[j] # <<>>
             /\ ~MappingOk(idmap[j])
             /\ LET nbs == IndexSearch(ix, qv, k * OversampleFactor)
                IN  \E i \in 1..Len(nbs) :
                       /\ nbs[i].id = j
                       /\ LET acc == SearchLoop([results |-> <<>>, seen |-> {}],
                                                SubSeq(nbs, 1, i - 1), 1,
                                                idmap, docs, k, filters)
                          IN  Len(acc.results) < k /\ idmap[j] \notin acc.seen

\* chunk_with_score = chunk : a second name for the cached dict.
ChunkAlias(ref) == [fresh |-> FALSE, of |-> ref]

\* chunk_with_score = chunk.copy() : a new dict with the items of the cached
\* chunk at ref = <<doc_id, position>>.
ChunkCopy(ref) == [fresh |-> TRUE, of |-> ref]

\* chunk_with_score["score"] = float(dist); chunk_with_score["doc_id"] = doc_id :
\* the cache after the two assignments, which reach a cached chunk only when
\* obj is that chunk.
SetScore(docs, obj, dist, doc_id) ==
    IF obj.fresh THEN docs
    ELSE [docs EXCEPT ![obj.of[1]][obj.of[2]] =
             [text |-> @.text, metadata |-> @.metadata,
              score |-> dist, doc_id |-> doc_id]]

\* The document cache along search's loop, from neighbour i on.
RECURSIVE SearchCache(_, _, _, _, _, _, _)
SearchCache(docs, acc, nbs, i, idmap, k, filters) ==
    IF i > Len(nbs) THEN docs
    ELSE LET next == SearchVisit(acc, nbs[i], idmap, docs, k, filters)
             mapping == idmap[nbs[i].id]
         IN  SearchCache(IF Len(next.results) > Len(acc.results)
                         THEN SetScore(docs,
                                       ChunkCopy(<<SplitDoc(mapping), SplitIndex(mapping) + 1>>),
                                       nbs[i].dist, SplitDoc(mapping))
                         ELSE docs,
                         next, nbs, i + 1, idmap, k, filters)

\* self.documents when search returns.
CacheAfterSearch(ix, idmap, docs, qv, k, filters) ==
    IF SearchEmpty(ix, docs) \/ ix.isNone THEN docs
    ELSE SearchCache(docs, [results |-> <<>>, seen |-> {}],
                     IndexSearch(ix, qv, k * OversampleFactor), 1, idmap, k, filters)

\* The query texts.
Queries == {<<"A", "b">>, <<"c", "e">>}

\* ------------------------------------------------------------------ state

VARIABLES
    rootExists,   \* disk: the documents/ directory exists
    docDirs,      \* disk: the doc_ids that have a directory under documents/
    chunkFiles,   \* disk: doc_id -> the lines of its chunks.jsonl, where present
    indexFile,    \* disk: faiss_index/kb.faiss
    mapFile,      \* disk: faiss_index/id_map.pkl
    log,          \* disk: operation_history.log
    index,        \* self.index
    id_map,       \* self.id_map : faiss id -> "doc_id/offset"
    documents,    \* self.documents : doc_id -> chunks
    pc,           \* where the running add_document / delete_document stands
    frame,        \* its local variables
    ret,          \* what the last call returned, once it has
    issued,       \* how many uuid4 values have been drawn
    deletedOk,    \* the doc_ids for which delete_document returned True
    idsIssued,    \* how many faiss ids add_document has handed out so far
    spc,          \* where a search running on another thread stands
    sframe,       \* its local variables
    sret,         \* what it returned
    sg,           \* the store before/after the mutation that overlapped it
    ui            \* a UI session: st.session_state.pending_delete, DELETE_PASSWORD,
                  \* and the button and password of its last run

vars == <<rootExists, docDirs, chunkFiles, indexFile, mapFile, log, index, id_map,
          documents, pc, frame, ret, issued, deletedOk, idsIssued, spc, sframe, sret,
          sg, ui>>

disk == <<rootExists, docDirs, chunkFiles, indexFile, mapFile, log>>

memory == <<index, id_map, documents>>

\* The other session: its call under way and its UI state.
searcher == <<spc, sframe, sret, ui>>

EmptyFn == [x \in {} |-> x]

\* A file: absent, empty (opened for writing, nothing written), partial (cut
\* off inside its content) or ok with its content.
AbsentFile == [st |-> "absent", ents |-> <<>>, map |-> EmptyFn]

TornFile(st) == [st |-> st, ents |-> <<>>, map |-> EmptyFn]

\* faiss.write_index(self.index, ...)
WrittenIndex(ix) == [st |-> "ok", ents |-> ix.ents, map |-> EmptyFn]

\* pickle.dump(self.id_map, f)
WrittenMap(m) == [st |-> "ok", ents |-> <<>>, map |-> m]

\* uuid.uuid4(): the n-th value drawn; all have the same length.
UuidChars == <<"a", "b", "c", "d", "e">>

Uuid(n) == <<UuidChars[n]>>

\* The strings delete_document is called with: any uuid, and "" (for which
\* docs_path / doc_id is docs_path itself).
DeleteArgs == {Uuid(n) : n \in 1..MaxDocs} \cup {<<>>}

Snap(ix, m, d) == [index |-> ix, id_map |-> m, documents |-> d]

NoSnap == Snap(NoIndex, EmptyFn, EmptyFn)

NoFrame == [doc_id |-> <<>>, chunks |-> <<>>, vectors |-> <<>>, start_id |-> 0,
            ids |-> {}, cont |-> "idle", pre |-> NoSnap]

\* args: for a search, the embedded query and the filters it was called with.
NoRet == [op |-> "none", val |-> "none", k |-> 0, items |-> <<>>, args |-> <<>>]

NoSFrame == [qv |-> 0, k |-> 0, filters |-> <<>>, nbs |-> <<>>, i |-> 0,
             acc |-> [results |-> <<>>, seen |-> {}]]

NoSg == [ov |-> 0, closed |-> TRUE, pre |-> NoSnap, post |-> NoSnap]

\* st.session_state.pending_delete: None or a doc_id.
NoPending == [isNone |-> TRUE, id |-> <<>>]

Pending(d) == [isNone |-> FALSE, id |-> d]

\* A session that has clicked nothing, in a process without DELETE_PASSWORD.
NoUi == [pending_delete |-> NoPending, required |-> NoneVal, clicked |-> "none", pw |-> <<>>]

\* __init__ on a fresh kb_path: both directories made, nothing to load.
Init ==
    /\ rootExists = TRUE
    /\ docDirs = {}
    /\ chunkFiles = EmptyFn
    /\ indexFile = AbsentFile
    /\ mapFile = AbsentFile
    /\ log = <<>>
    /\ index = NoIndex
    /\ id_map = EmptyFn
    /\ documents = EmptyFn
    /\ pc = "idle"
    /\ frame = NoFrame
    /\ ret = NoRet
    /\ issued = 0
    /\ deletedOk = {}
    /\ idsIssued = 0
    /\ spc = "idle"
    /\ sframe = NoSFrame
    /\ sret = <<>>
    /\ sg = NoSg
    /\ ui = NoUi

\* The search thread is between its first and its last step.
Searching == spc \in {"embedded", "loop"}

\* sg when a mutating call starts / returns (the first one overlapping a search).
SgOnStart == IF ~Searching THEN sg
             ELSE IF sg.ov = 0
                  THEN [sg EXCEPT !.ov = 1, !.closed = FALSE,
                                  !.pre = Snap(index, id_map, documents)]
                  ELSE [sg EXCEPT !.ov = @ + 1]

SgOnReturn(ix, m, d) == IF sg.ov >= 1 /\ ~sg.closed
                        THEN [sg EXCEPT !.closed = TRUE, !.post = Snap(ix, m, d)]
                        ELSE sg

\* log_operation(action, {"doc_id": doc_id, ...})
LogOperation(action, doc_id) == Append(log, [action |-> action, doc_id |-> doc_id])

\* ----------------------------------------------------------- add_document

Max(S) == CHOOSE x \in S : \A y \in S : y <= x

\* A start_id that forgets the + 1.
StartIdIsMax(m) == IF DOMAIN m # {} THEN Max(DOMAIN m) ELSE 0

\* start_id = max(self.id_map.keys()) + 1 if self.id_map else 0
StartId(m) == IF DOMAIN m # {} THEN Max(DOMAIN m) + 1 ELSE 0

\* doc_id = uuid4(); doc_dir.mkdir(); the original and the thumbnail are copied.
AddDocument ==
    /\ pc = "idle"
    /\ rootExists
    /\ issued < MaxDocs
    /\ Len(log) < MaxLog
    /\ \E chunks \in ChunkLists :
          frame' = [NoFrame EXCEPT !.doc_id = Uuid(issued + 1), !.chunks = chunks,
                                   !.pre = Snap(index, id_map, documents)]
    /\ issued' = issued + 1
    /\ docDirs' = docDirs \cup {Uuid(issued + 1)}
    /\ pc' = "add_chunks"
    /\ ret' = NoRet
    /\ sg' = SgOnStart
    /\ UNCHANGED <<rootExists, chunkFiles, indexFile, mapFile, log, memory,
                   deletedOk, idsIssued, searcher>>

\* doc_dir.mkdir() raises when documents/ is gone: nothing has changed yet.
AddDocumentRaises ==
    /\ pc = "idle"
    /\ ~rootExists
    /\ ret' = [NoRet EXCEPT !.op = "add_document", !.val = "raise"]
    /\ UNCHANGED <<disk, memory, pc, frame, issued, deletedOk, idsIssued, searcher, sg>>

\* chunks.jsonl is written, one json.dumps line per chunk.
AddWriteChunks ==
    /\ pc = "add_chunks"
    /\ chunkFiles' = (frame.doc_id :> [i \in 1..Len(frame.chunks) |->
                                          JsonDumps(frame.chunks[i])]) @@ chunkFiles
    /\ pc' = "add_embed"
    /\ UNCHANGED <<rootExists, docDirs, indexFile, mapFile, log, memory, frame, ret,
                   issued, deletedOk, idsIssued, searcher, sg>>

\* An add_document that leaves out the chunks whose embedding call failed.
AddEmbedDropsFailed ==
    /\ pc = "add_embed"
    /\ \E failed \in SUBSET (1..Len(frame.chunks)) :
          LET kept == SelectSeq([i \in 1..Len(frame.chunks) |-> i],
                                LAMBDA i : i \notin failed)
              vectors == [r \in 1..Len(kept) |->
                             Embed(frame.chunks[kept[r]].text, FALSE)]
          IN  IF vectors = <<>>
              THEN /\ pc' = "idle"
                   /\ frame' = NoFrame
                   /\ ret' = [NoRet EXCEPT !.op = "add_document", !.val = "none"]
                   /\ sg' = SgOnReturn(index, id_map, documents)
              ELSE /\ pc' = "add_index"
                   /\ frame' = [frame EXCEPT !.vectors = vectors]
                   /\ UNCHANGED <<ret, sg>>
    /\ UNCHANGED <<disk, memory, issued, deletedOk, idsIssued, searcher>>

\* An add_document that caches the document before it returns on no vector.
AddEmbedCachesEmpty ==
    /\ pc = "add_embed"
    /\ \E failed \in SUBSET (1..Len(frame.chunks)) :
          LET vectors == [i \in 1..Len(frame.chunks) |->
                             Embed(frame.chunks[i].text, i \in failed)]
          IN  IF vectors = <<>>
              THEN /\ pc' = "idle"
                   /\ frame' = NoFrame
                   /\ ret' = [NoRet EXCEPT !.op = "add_document", !.val = "none"]
                   /\ documents' = (frame.doc_id :> frame.chunks) @@ documents
                   /\ sg' = SgOnReturn(index, id_map, documents')
              ELSE /\ pc' = "add_index"
                   /\ frame' = [frame EXCEPT !.vectors = vectors]
                   /\ UNCHANGED <<ret, sg, documents>>
    /\ UNCHANGED <<disk, index, id_map, issued, deletedOk, idsIssued, searcher>>

\* vectors = [self._embed(chunk['text']) ...], any of the calls falling back;
\* with no vector the call returns here.
AddEmbed ==
    /\ pc = "add_embed"
    /\ \E failed \in SUBSET (1..Len(frame.chunks)) :
          LET vectors == [i \in 1..Len(frame.chunks) |->
                             Embed(frame.chunks[i].text, i \in failed)]
          IN  IF vectors = <<>>
              THEN /\ pc' = "idle"
                   /\ frame' = NoFrame
                   /\ ret' = [NoRet EXCEPT !.op = "add_document", !.val = "none"]
                   /\ sg' = SgOnReturn(index, id_map, documents)
              ELSE /\ pc' = "add_index"
                   /\ frame' = [frame EXCEPT !.vectors = vectors]
                   /\ UNCHANGED <<ret, sg>>
    /\ UNCHANGED <<disk, memory, issued, deletedOk, idsIssued, searcher>>

\* The index is created when there is none; start_id is taken from id_map and
\* the vectors are added under start_id, start_id + 1, ...
AddIndex ==
    /\ pc = "add_index"
    /\ LET start_id == StartId(id_map)
       IN  /\ index' = AddWithIds(IF index.isNone THEN EmptyIndex ELSE index,
                                  frame.vectors, start_id)
           /\ frame' = [frame EXCEPT !.start_id = start_id,
                           !.ids = start_id..(start_id + Len(frame.vectors) - 1)]
    /\ idsIssued' = idsIssued + Len(frame.vectors)
    /\ pc' = "add_map"
    /\ UNCHANGED <<disk, id_map, documents, ret, issued, deletedOk, searcher, sg>>

\* self.id_map[int(faiss_id)] = f"{doc_id}/{i}" for every new id
AddMap ==
    /\ pc = "add_map"
    /\ id_map' = [j \in frame.ids |-> Mapping(frame.doc_id, j - frame.start_id)] @@ id_map
    /\ frame' = [frame EXCEPT !.cont = "add_cache"]
    /\ pc' = "save_index"
    /\ UNCHANGED <<disk, index, documents, ret, issued, deletedOk, idsIssued,
                   searcher, sg>>

\* _save_index, first half: faiss.write_index (nothing is saved without an index).
SaveIndexFile ==
    /\ pc = "save_index"
    /\ IF index.isNone
       THEN pc' = frame.cont /\ UNCHANGED indexFile
       ELSE pc' = "save_map" /\ indexFile' = WrittenIndex(index)
    /\ UNCHANGED <<rootExists, docDirs, chunkFiles, mapFile, log, memory, frame, ret,
                   issued, deletedOk, idsIssued, searcher, sg>>

\* _save_index, second half: pickle.dump(self.id_map)
SaveMapFile ==
    /\ pc = "save_map"
    /\ mapFile' = WrittenMap(id_map)
    /\ pc' = frame.cont
    /\ UNCHANGED <<rootExists, docDirs, chunkFiles, indexFile, log, memory, frame, ret,
                   issued, deletedOk, idsIssued, searcher, sg>>

\* self.documents[doc_id] = chunks; log_operation("add_document", ...)
AddFinish ==
    /\ pc = "add_cache"
    /\ documents' = (frame.doc_id :> frame.chunks) @@ documents
    /\ log' = LogOperation("add_document", frame.doc_id)
    /\ ret' = [NoRet EXCEPT !.op = "add_document", !.val = "none"]
    /\ pc' = "idle"
    /\ frame' = NoFrame
    /\ sg' = SgOnReturn(index, id_map, documents')
    /\ UNCHANGED <<rootExists, docDirs, chunkFiles, indexFile, mapFile, index, id_map,
                   issued, deletedOk, idsIssued, searcher>>

\* -------------------------------------------------------- delete_document

\* (self.docs_path / doc_id).exists()
DirExists(x) == IF x = <<>> THEN rootExists ELSE x \in docDirs

\* The collection comparing the whole mapping with doc_id.
IdsToRemoveExact(m, x) == {j \in DOMAIN m : m[j] = x}

\* The collection taking every id of the map.
IdsToRemoveAll(m, x) == DOMAIN m

\* [faiss_id for faiss_id, mapping in self.id_map.items() if mapping.startswith(doc_id)]
IdsToRemove(m, x) == {j \in DOMAIN m : StartsWith(m[j], x)}

\* The directory is missing: False, nothing touched.
DeleteUnknown ==
    /\ pc = "idle"
    /\ \E x \in DeleteArgs : ~DirExists(x)
    /\ ret' = [NoRet EXCEPT !.op = "delete_document", !.val = "false"]
    /\ UNCHANGED <<disk, memory, pc, frame, issued, deletedOk, idsIssued, searcher, sg>>

\* The directory exists: the ids are collected and removed from the index.
DeleteDocument ==
    /\ pc = "idle"
    /\ Len(log) < MaxLog
    /\ \E x \in DeleteArgs :
          /\ DirExists(x)
          /\ LET ids == IdsToRemove(id_map, x)
             IN  /\ frame' = [NoFrame EXCEPT !.doc_id = x, !.ids = ids,
                                 !.cont = "del_rmtree",
                                 !.pre = Snap(index, id_map, documents)]
                 /\ IF ids # {} /\ ~index.isNone
                    THEN index' = RemoveIds(index, ids) /\ pc' = "del_map"
                    ELSE UNCHANGED index /\ pc' = "del_rmtree"
    /\ ret' = NoRet
    /\ sg' = SgOnStart
    /\ UNCHANGED <<disk, id_map, documents, issued, deletedOk, idsIssued, searcher>>

\* del self.id_map[faiss_id] for every collected id
DelMap ==
    /\ pc = "del_map"
    /\ id_map' = [j \in DOMAIN id_map \ frame.ids |-> id_map[j]]
    /\ pc' = "save_index"
    /\ UNCHANGED <<disk, index, documents, frame, ret, issued, deletedOk, idsIssued,
                   searcher, sg>>

\* shutil.rmtree(doc_dir); for "" that is documents/ itself.
DelRmtree ==
    /\ pc = "del_rmtree"
    /\ IF frame.doc_id = <<>>
       THEN /\ rootExists' = FALSE
            /\ docDirs' = {}
            /\ chunkFiles' = EmptyFn
       ELSE /\ docDirs' = docDirs \ {frame.doc_id}
            /\ chunkFiles' = [d \in DOMAIN chunkFiles \ {frame.doc_id} |-> chunkFiles[d]]
            /\ UNCHANGED rootExists
    /\ pc' = "del_cache"
    /\ UNCHANGED <<indexFile, mapFile, log, memory, frame, ret, issued, deletedOk, idsIssued,
                   searcher, sg>>

\* del self.documents[doc_id] when cached; log_operation; return True
DelFinish ==
    /\ pc = "del_cache"
    /\ documents' = [d \in DOMAIN documents \ {frame.doc_id} |-> documents[d]]
    /\ log' = LogOperation("delete_document", frame.doc_id)
    /\ ret' = [NoRet EXCEPT !.op = "delete_document", !.val = "true"]
    /\ deletedOk' = deletedOk \cup {frame.doc_id}
    /\ pc' = "idle"
    /\ frame' = NoFrame
    /\ sg' = SgOnReturn(index, id_map, documents')
    /\ UNCHANGED <<rootExists, docDirs, chunkFiles, indexFile, mapFile, index, id_map,
                   issued, idsIssued, searcher>>

\* ------------------------------------------------------------------ _load

BothExist(ixf, mf) == ixf.st # "absent" /\ mf.st # "absent"

\* faiss.read_index raises RuntimeError on an empty or cut-off file and
\* pickle.load raises UnpicklingError on a cut-off one: neither is an EOFError,
\* so the exception leaves _load and __init__.
LoadRaises(ixf, mf) ==
    /\ BothExist(ixf, mf)
    /\ \/ ixf.st \in {"empty", "partial"}
       \/ ixf.st = "ok" /\ mf.st = "partial"

\* pickle.load on an empty file raises EOFError: the handler resets index and
\* id_map and unlinks both files.
LoadEOF(ixf, mf) == BothExist(ixf, mf) /\ ixf.st = "ok" /\ mf.st = "empty"

LoadedIndex(ixf, mf) ==
    IF BothExist(ixf, mf) /\ ixf.st = "ok" /\ mf.st = "ok"
    THEN [isNone |-> FALSE, ents |-> ixf.ents] ELSE NoIndex

LoadedMap(ixf, mf) ==
    IF BothExist(ixf, mf) /\ ixf.st = "ok" /\ mf.st = "ok" THEN mf.map ELSE EmptyFn

\* Every directory with a chunks.jsonl: [json.loads(line) for line in f]
LoadedDocuments(cf) ==
    [d \in DOMAIN cf |-> [i \in 1..Len(cf[d]) |-> JsonLoads(cf[d][i])]]

\* VectorStoreManager(client) on the disk (dd, cf, ixf, mf): __init__ makes the
\* directories and calls _load; when _load raises there is no manager.
Construct(dd, cf, ixf, mf) ==
    /\ rootExists' = TRUE
    /\ docDirs' = dd
    /\ chunkFiles' = cf
    /\ IF LoadRaises(ixf, mf)
       THEN /\ index' = NoIndex
            /\ id_map' = EmptyFn
            /\ documents' = EmptyFn
            /\ indexFile' = ixf
            /\ mapFile' = mf
            /\ pc' = "down"
            /\ ret' = [NoRet EXCEPT !.op = "load", !.val = "raise",
                                    !.items = <<ixf.st, mf.st>>]
       ELSE /\ index' = LoadedIndex(ixf, mf)
            /\ id_map' = LoadedMap(ixf, mf)
            /\ documents' = LoadedDocuments(cf)
            /\ indexFile' = IF LoadEOF(ixf, mf) THEN AbsentFile ELSE ixf
            /\ mapFile' = IF LoadEOF(ixf, mf) THEN AbsentFile ELSE mf
            /\ pc' = "idle"
            /\ ret' = [NoRet EXCEPT !.op = "load", !.val = "ok",
                                    !.items = <<ixf.st, mf.st>>]
    /\ frame' = NoFrame
    /\ UNCHANGED <<log, issued, deletedOk, idsIssued, searcher, sg>>

\* The process is restarted between two calls: a new manager on the same directory.
Reload ==
    /\ pc \in {"idle", "down"}
    /\ ~Searching
    /\ Construct(docDirs, chunkFiles, indexFile, mapFile)

\* What a file being written holds when the process dies inside the write.
Torn == {TornFile("empty"), TornFile("partial")}

\* The process dies inside add_document or delete_document, at or inside the
\* step pc stands at, and is started again.
Crash ==
    /\ pc \notin {"idle", "down"}
    /\ ~Searching
    /\ \E cf \in IF pc = "add_chunks"
                 THEN {chunkFiles} \cup
                      {(frame.doc_id :> [i \in 1..n |-> JsonDumps(frame.chunks[i])])
                          @@ chunkFiles : n \in 0..(Len(frame.chunks) - 1)}
                 ELSE IF pc = "del_rmtree" /\ frame.doc_id \in DOMAIN chunkFiles
                 THEN {chunkFiles,
                       [d \in DOMAIN chunkFiles \ {frame.doc_id} |-> chunkFiles[d]]}
                 ELSE {chunkFiles} :
       \E ixf \in IF pc = "save_index" /\ ~index.isNone
                  THEN {indexFile} \cup Torn ELSE {indexFile} :
       \E mf \in IF pc = "save_map" THEN {mapFile} \cup Torn ELSE {mapFile} :
          Construct(docDirs, cf, ixf, mf)

\* ----------------------------------------------------------------- search

\* search(query, k, filters) called between two other calls (a search right
\* after a search returns what the first could have returned: search changes
\* nothing but what it returns).
Search ==
    /\ pc = "idle"
    /\ ~Searching
    /\ ret.op # "search"
    /\ \E q \in Queries, k \in Ks, f \in FilterSpecs, failed \in BOOLEAN :
          /\ ret' = IF SearchRaises(index, id_map, documents, Embed(q, failed), k, f)
                    THEN [NoRet EXCEPT !.op = "search", !.val = "raise", !.k = k,
                                       !.args = <<Embed(q, failed), f>>]
                    ELSE [op |-> "search", val |-> "list", k |-> k,
                          items |-> SearchResult(index, id_map, documents,
                                                 Embed(q, failed), k, f),
                          args |-> <<Embed(q, failed), f>>]
          /\ documents' = CacheAfterSearch(index, id_map, documents, Embed(q, failed), k, f)
    /\ UNCHANGED <<disk, index, id_map, pc, frame, issued, deletedOk, idsIssued, searcher, sg>>

\* search on a second thread (another session on the cached manager), step by
\* step: the guard and the embedding of the query,
SearchStart ==
    /\ spc \in {"idle", "done"}
    /\ pc # "down"
    /\ \E q \in Queries, k \in Ks, f \in FilterSpecs, failed \in BOOLEAN :
          sframe' = [NoSFrame EXCEPT !.qv = Embed(q, failed), !.k = k, !.filters = f]
    /\ IF SearchEmpty(index, documents)
       THEN spc' = "done" /\ sg' = NoSg
       ELSE /\ spc' = "embedded"
            /\ sg' = IF pc = "idle" THEN NoSg
                     ELSE [ov |-> 1, closed |-> FALSE, pre |-> frame.pre, post |-> NoSnap]
    /\ sret' = <<>>
    /\ UNCHANGED <<disk, memory, pc, frame, ret, issued, deletedOk, idsIssued>>
    /\ UNCHANGED ui

\* A turn of the loop that reads nothing shared: padding, or k results are there.
LocalTurn(nb, acc, k) == nb.id = -1 \/ Len(acc.results) >= k

\* The first turn from i on that reads id_map (past the end when there is none).
RECURSIVE NextTurn(_, _, _, _)
NextTurn(nbs, i, acc, k) ==
    IF i > Len(nbs) \/ ~LocalTurn(nbs[i], acc, k) THEN i
    ELSE NextTurn(nbs, i + 1, acc, k)

\* ... self.index.search(query_vector, k * 5),
SearchIndexStep ==
    /\ spc = "embedded"
    /\ LET nbs == IndexSearch(index, sframe.qv, sframe.k * OversampleFactor)
       IN  sframe' = [sframe EXCEPT !.nbs = nbs,
                                    !.i = NextTurn(nbs, 1, sframe.acc, sframe.k)]
    /\ spc' = "loop"
    /\ UNCHANGED <<disk, memory, pc, frame, ret, issued, deletedOk, idsIssued, sret, sg>>
    /\ UNCHANGED ui

\* ... one turn of the loop over the neighbours, on the id_map and documents of
\* now (and the turns after it that only skip),
SearchLoopStep ==
    /\ spc = "loop"
    /\ sframe.i <= Len(sframe.nbs)
    /\ LET acc == SearchVisit(sframe.acc, sframe.nbs[sframe.i], id_map,
                              documents, sframe.k, sframe.filters)
       IN  sframe' = [sframe EXCEPT
                        !.acc = acc,
                        !.i = NextTurn(sframe.nbs, sframe.i + 1, acc, sframe.k)]
    /\ UNCHANGED <<disk, memory, pc, frame, ret, issued, deletedOk, idsIssued, spc,
                   sret, sg>>
    /\ UNCHANGED ui

\* ... return results.
SearchReturn ==
    /\ spc = "loop"
    /\ sframe.i > Len(sframe.nbs)
    /\ sret' = sframe.acc.results
    /\ sframe' = [NoSFrame EXCEPT !.qv = sframe.qv, !.k = sframe.k,
                                  !.filters = sframe.filters]
    /\ spc' = "done"
    /\ UNCHANGED <<disk, memory, pc, frame, ret, issued, deletedOk, idsIssued, sg>>
    /\ UNCHANGED ui

\* ------------------------------------------- _match_filters on its own

\* Chunks with the other shapes of metadata: an empty expiration_date with a
\* custom key, and an expiration_date of None (app.py:170) with one tag.
Chunk4 == [text |-> <<"T", "a">>,
           metadata |-> [k \in {"author", "expiration_date", "category"} |->
               CASE k = "author" -> StrVal(<<"B">>)
                 [] k = "expiration_date" -> StrVal(<<>>)
                 [] OTHER -> StrVal(<<"a">>)]]

Chunk5 == [text |-> <<"a", "B", "c">>,
           metadata |-> [k \in {"expiration_date", "ai_tags"} |->
               CASE k = "expiration_date" -> NoneVal
                 [] OTHER -> ListVal(<< <<"e">> >>)]]

FilterChunks == ChunkPool \cup {Chunk4, Chunk5}

\* The (key, value) items a filter dict is made of.
FilterItems ==
    { [key |-> "author", value |-> StrVal(<<"T">>)],
      [key |-> "author", value |-> StrVal(<<"B">>)],
      [key |-> "tag", value |-> StrVal(<<"a">>)],
      [key |-> "tag", value |-> ListVal(<< <<"b">>, <<"e">> >>)],
      [key |-> "tag", value |-> ListVal(<<>>)],
      [key |-> "keyword", value |-> StrVal(<<"a", "B">>)],
      [key |-> "keyword", value |-> StrVal(<<"d">>)],
      [key |-> "expiration_date_gt", value |-> StrVal(<<"2", "5", "-", "0", "1">>)],
      [key |-> "expiration_date_gt", value |-> StrVal(<<"2", "0", "-", "0", "1">>)],
      [key |-> "expiration_date_start", value |-> StrVal(<<"2", "5", "-", "0", "1">>)],
      [key |-> "expiration_date_end", value |-> StrVal(<<"2", "5", "-", "0", "1">>)],
      [key |-> "category", value |-> StrVal(<<"a">>)],
      [key |-> "category", value |-> NoneVal] }

\* The filter dicts of up to two keys, in either insertion order.
FilterDicts ==
    {<<>>} \cup {<<a>> : a \in FilterItems}
           \cup {<<p[1], p[2]>> : p \in {q \in FilterItems \X FilterItems :
                                            q[1].key # q[2].key}}

\* The store of Init, and a call _match_filters(chunk, filters) about to be made.
InitFilter ==
    /\ rootExists = TRUE
    /\ docDirs = {}
    /\ chunkFiles = EmptyFn
    /\ indexFile = AbsentFile
    /\ mapFile = AbsentFile
    /\ log = <<>>
    /\ index = NoIndex
    /\ id_map = EmptyFn
    /\ documents = EmptyFn
    /\ pc = "idle"
    /\ frame = NoFrame
    /\ \E chunk \in FilterChunks, filters \in FilterDicts :
          ret = [NoRet EXCEPT !.op = "_match_filters", !.items = <<chunk, filters>>]
    /\ issued = 0
    /\ deletedOk = {}
    /\ idsIssued = 0
    /\ spc = "idle"
    /\ sframe = NoSFrame
    /\ sret = <<>>
    /\ sg = NoSg
    /\ ui = NoUi

\* _match_filters(chunk, filters) returns.
MatchFiltersCall ==
    /\ ret.op = "_match_filters"
    /\ ret.val = "none"
    /\ ret' = [ret EXCEPT !.val = IF MatchFilters(ret.items[1], ret.items[2])
                                  THEN "true" ELSE "false"]
    /\ UNCHANGED <<disk, memory, pc, frame, issued, deletedOk, idsIssued, searcher, sg>>

\* ------------------------------------------ search on a larger store

\* Chunk lists of three chunks, so that two documents give the index more
\* entries than a search with k = 1 samples.
LongChunkLists == {<<x, y, z>> : x, y, z \in ChunkPool}

\* The index, id_map and cache after a completed add_document(p, chunks, None)
\* on store st, no embedding call failing.
StoreAdd(st, doc_id, chunks) ==
    LET vectors == [i \in 1..Len(chunks) |-> Embed(chunks[i].text, FALSE)]
        start_id == StartId(st.id_map)
    IN  Snap(AddWithIds(IF st.index.isNone THEN EmptyIndex ELSE st.index,
                        vectors, start_id),
             [j \in start_id..(start_id + Len(vectors) - 1) |->
                 Mapping(doc_id, j - start_id)] @@ st.id_map,
             (doc_id :> chunks) @@ st.documents)

\* A manager on a fresh kb_path after two add_document calls of three chunks each.
InitSearch ==
    \E a \in LongChunkLists, b \in LongChunkLists :
       LET st == StoreAdd(StoreAdd(NoSnap, Uuid(1), a), Uuid(2), b)
       IN  /\ rootExists = TRUE
           /\ docDirs = {Uuid(1), Uuid(2)}
           /\ chunkFiles = [d \in {Uuid(1), Uuid(2)} |->
                              [i \in 1..Len(st.documents[d]) |->
                                  JsonDumps(st.documents[d][i])]]
           /\ indexFile = WrittenIndex(st.index)
           /\ mapFile = WrittenMap(st.id_map)
           /\ log = <<[action |-> "add_document", doc_id |-> Uuid(1)],
                      [action |-> "add_document", doc_id |-> Uuid(2)]>>
           /\ index = st.index
           /\ id_map = st.id_map
           /\ documents = st.documents
           /\ pc = "idle"
           /\ frame = NoFrame
           /\ ret = [NoRet EXCEPT !.op = "add_document"]
           /\ issued = 2
           /\ deletedOk = {}
           /\ idsIssued = Len(a) + Len(b)
           /\ spc = "idle"
           /\ sframe = NoSFrame
           /\ sret = <<>>
           /\ sg = NoSg
           /\ ui = NoUi

\* ---------------------------------------------------------------- export_all

\* The record export_all builds for one chunk.
ExportRecord(doc_id, chunk) ==
    [doc_id |-> doc_id,
     text |-> IF "text" \in DOMAIN chunk THEN chunk.text ELSE <<>>,
     metadata |-> IF "metadata" \in DOMAIN chunk THEN chunk.metadata ELSE EmptyFn]

\* json.dumps(record) : one line of the export file.
ExportDumps(record) ==
    [doc_id |-> record.doc_id,
     text |-> record.text,
     members |-> {<<k, record.metadata[k]>> : k \in DOMAIN record.metadata}]

ExportDocFirstChunkOnly(doc_id, chunks) ==
    [i \in 1..(IF Len(chunks) = 0 THEN 0 ELSE 1) |->
        ExportDumps(ExportRecord(doc_id, chunks[i]))]

\* The inner loop: the lines of one document, in the order of its chunks.
ExportDoc(doc_id, chunks) ==
    [i \in 1..Len(chunks) |-> ExportDumps(ExportRecord(doc_id, chunks[i]))]

\* The outer loop over self.documents.items(), in the order the dict yields.
RECURSIVE ExportLines(_, _)
ExportLines(order, docs) ==
    IF order = <<>> THEN <<>>
    ELSE ExportDoc(Head(order), docs[Head(order)]) \o ExportLines(Tail(order), docs)

\* The orders a dict can yield its keys in: the cache is filled by iterdir in
\* _load and by add_document, so any order of the keys can be the dict's.
DictOrders(keys) ==
    {o \in [1..Cardinality(keys) -> keys] :
        \A i, j \in 1..Cardinality(keys) : i # j => o[i] # o[j]}

\* export_all(export_path), export_path outside the knowledge base; ret.items
\* holds the lines written to the export file.
ExportAll ==
    /\ pc = "idle"
    /\ ~Searching
    /\ \E o \in DictOrders(DOMAIN documents) :
          ret' = [NoRet EXCEPT !.op = "export_all",
                               !.items = ExportLines(o, documents)]
    /\ UNCHANGED <<disk, memory, pc, frame, issued, deletedOk, idsIssued, searcher, sg>>

\* ----------------------------------------------- rag_engine.answer_question

\* search's default k, which answer_question leaves in place.
DefaultK == 5

\* What client.chat.completions.create and the reading of its response can
\* do: return a completion with a text, raise an openai.OpenAIError, or return
\* a completion whose message.content is None, on which .strip() raises
\* AttributeError.
LlmOutcomes == {"text", "api_error", "no_content"}

\* The sources list: metadata and doc_id of each retrieved chunk.
Sources(docs) ==
    [i \in 1..Len(docs) |-> [metadata |-> docs[i].metadata, doc_id |-> docs[i].doc_id]]

\* answer_question after the search returned docs: val is the kind of answer
\* ("no_info" the fixed answer, "answer" the model's text, "sentinel" the
\* failure message, "raise" an exception leaving the function), items the
\* sources, args the fate of the language-model call and the retrieved chunks.
AnswerResult(docs, llm) ==
    IF docs = <<>>
    THEN [NoRet EXCEPT !.op = "answer_question", !.val = "no_info",
                       !.args = <<"not_called", docs>>]
    ELSE CASE llm = "text" ->
                [NoRet EXCEPT !.op = "answer_question", !.val = "answer",
                              !.items = Sources(docs), !.args = <<llm, docs>>]
           [] llm = "api_error" ->
                [NoRet EXCEPT !.op = "answer_question", !.val = "sentinel",
                              !.items = Sources(docs), !.args = <<llm, docs>>]
           [] OTHER ->
                [NoRet EXCEPT !.op = "answer_question", !.val = "raise",
                              !.args = <<llm, docs>>]

\* answer_question(question, filters) on the manager's current store.
AnswerQuestion ==
    /\ pc = "idle"
    /\ ~Searching
    /\ \E q \in Queries, f \in FilterSpecs, failed \in BOOLEAN, llm \in LlmOutcomes :
          /\ ret' = IF SearchRaises(index, id_map, documents, Embed(q, failed), DefaultK, f)
                    THEN [NoRet EXCEPT !.op = "answer_question", !.val = "raise",
                                       !.args = <<"not_called", <<>> >>]
                    ELSE AnswerResult(SearchResult(index, id_map, documents,
                                                   Embed(q, failed), DefaultK, f), llm)
          /\ documents' = CacheAfterSearch(index, id_map, documents,
                                           Embed(q, failed), DefaultK, f)
    /\ UNCHANGED <<disk, index, id_map, pc, frame, issued, deletedOk, idsIssued, searcher, sg>>

\* ------------------------------------- add_document from a second session

\* A second UI session calls add_document on the same cached manager; spc and
\* sframe are that thread's position and locals. The steps are those of
\* add_document above, on the shared index, id_map, cache and files.
OtherAddDocument ==
    /\ spc = "idle"
    /\ rootExists
    /\ issued < MaxDocs
    /\ Len(log) < MaxLog
    /\ \E chunks \in ChunkLists :
          sframe' = [NoFrame EXCEPT !.doc_id = Uuid(issued + 1), !.chunks = chunks]
    /\ issued' = issued + 1
    /\ docDirs' = docDirs \cup {Uuid(issued + 1)}
    /\ spc' = "add_chunks"
    /\ UNCHANGED <<rootExists, chunkFiles, indexFile, mapFile, log, memory,
                   pc, frame, ret, deletedOk, idsIssued, sret, sg>>
    /\ UNCHANGED ui

OtherAddWriteChunks ==
    /\ spc = "add_chunks"
    /\ chunkFiles' = (sframe.doc_id :> [i \in 1..Len(sframe.chunks) |->
                                           JsonDumps(sframe.chunks[i])]) @@ chunkFiles
    /\ spc' = "add_embed"
    /\ UNCHANGED <<rootExists, docDirs, indexFile, mapFile, log, memory, pc, frame, ret,
                   issued, deletedOk, idsIssued, sframe, sret, sg>>
    /\ UNCHANGED ui

OtherAddEmbed ==
    /\ spc = "add_embed"
    /\ \E failed \in SUBSET (1..Len(sframe.chunks)) :
          LET vectors == [i \in 1..Len(sframe.chunks) |->
                             Embed(sframe.chunks[i].text, i \in failed)]
          IN  IF vectors = <<>>
              THEN /\ spc' = "idle"
                   /\ sframe' = NoSFrame
              ELSE /\ spc' = "add_index"
                   /\ sframe' = [sframe EXCEPT !.vectors = vectors]
    /\ UNCHANGED <<disk, memory, pc, frame, ret, issued, deletedOk, idsIssued, sret, sg>>
    /\ UNCHANGED ui

OtherAddIndex ==
    /\ spc = "add_index"
    /\ LET start_id == StartId(id_map)
       IN  /\ index' = AddWithIds(IF index.isNone THEN EmptyIndex ELSE index,
                                  sframe.vectors, start_id)
           /\ sframe' = [sframe EXCEPT !.start_id = start_id,
                            !.ids = start_id..(start_id + Len(sframe.vectors) - 1)]
    /\ idsIssued' = idsIssued + Len(sframe.vectors)
    /\ spc' = "add_map"
    /\ UNCHANGED <<disk, id_map, documents, pc, frame, ret, issued, deletedOk, sret, sg>>
    /\ UNCHANGED ui

OtherAddMap ==
    /\ spc = "add_map"
    /\ id_map' = [j \in sframe.ids |-> Mapping(sframe.doc_id, j - sframe.start_id)] @@ id_map
    /\ spc' = "save_index"
    /\ UNCHANGED <<disk, index, documents, pc, frame, ret, issued, deletedOk, idsIssued,
                   sframe, sret, sg>>
    /\ UNCHANGED ui

OtherSaveIndexFile ==
    /\ spc = "save_index"
    /\ IF index.isNone
       THEN spc' = "add_cache" /\ UNCHANGED indexFile
       ELSE spc' = "save_map" /\ indexFile' = WrittenIndex(index)
    /\ UNCHANGED <<rootExists, docDirs, chunkFiles, mapFile, log, memory, pc, frame, ret,
                   issued, deletedOk, idsIssued, sframe, sret, sg>>
    /\ UNCHANGED ui

OtherSaveMapFile ==
    /\ spc = "save_map"
    /\ mapFile' = WrittenMap(id_map)
    /\ spc' = "add_cache"
    /\ UNCHANGED <<rootExists, docDirs, chunkFiles, indexFile, log, memory, pc, frame, ret,
                   issued, deletedOk, idsIssued, sframe, sret, sg>>
    /\ UNCHANGED ui

OtherAddFinish ==
    /\ spc = "add_cache"
    /\ documents' = (sframe.doc_id :> sframe.chunks) @@ documents
    /\ log' = LogOperation("add_document", sframe.doc_id)
    /\ spc' = "idle"
    /\ sframe' = NoSFrame
    /\ UNCHANGED <<rootExists, docDirs, chunkFiles, indexFile, mapFile, index, id_map,
                   pc, frame, ret, issued, deletedOk, idsIssued, sret, sg>>
    /\ UNCHANGED ui

\* --------------------------------------------- app.display_knowledge_base

\* os.environ.get("DELETE_PASSWORD"): unset, empty, or a password.
DeletePasswords == {NoneVal, StrVal(<<>>), StrVal(<<"s">>)}

\* What the user can have typed into the password field.
TypedPasswords == {<<>>, <<"s">>, <<"x">>}

\* if st.session_state.pending_delete:
PendingTruthy(p) == ~p.isNone /\ p.id # <<>>

\* A test that lets every password through.
PasswordRejectedNever(required, pw) == FALSE

\* if required and pw != required:
PasswordRejected(required, pw) == Truthy(required) /\ pw # required.s

\* if not vector_store.documents: ... return -- nothing below is drawn.
KnowledgeShown == DOMAIN documents # {}

\* vector_store.delete_document(doc_id) run from its first line to its return.
DeleteCall(x) ==
    IF ~DirExists(x)
    THEN /\ ret' = [NoRet EXCEPT !.op = "delete_document", !.val = "false"]
         /\ UNCHANGED <<disk, memory, deletedOk>>
    ELSE LET ids == IdsToRemove(id_map, x)
             removing == ids # {} /\ ~index.isNone
         IN  /\ index' = IF removing THEN RemoveIds(index, ids) ELSE index
             /\ id_map' = IF removing THEN [j \in DOMAIN id_map \ ids |-> id_map[j]]
                          ELSE id_map
             /\ indexFile' = IF removing THEN WrittenIndex(RemoveIds(index, ids))
                             ELSE indexFile
             /\ mapFile' = IF removing
                           THEN WrittenMap([j \in DOMAIN id_map \ ids |-> id_map[j]])
                           ELSE mapFile
             /\ IF x = <<>>
                THEN /\ rootExists' = FALSE
                     /\ docDirs' = {}
                     /\ chunkFiles' = EmptyFn
                ELSE /\ docDirs' = docDirs \ {x}
                     /\ chunkFiles' = [d \in DOMAIN chunkFiles \ {x} |-> chunkFiles[d]]
                     /\ UNCHANGED rootExists
             /\ documents' = [d \in DOMAIN documents \ {x} |-> documents[d]]
             /\ log' = LogOperation("delete_document", x)
             /\ deletedOk' = deletedOk \cup {x}
             /\ ret' = [NoRet EXCEPT !.op = "delete_document", !.val = "true"]

\* A run in which the delete button of a listed document was clicked.
UiClickDelete ==
    /\ pc = "idle"
    /\ spc = "idle"
    /\ KnowledgeShown
    /\ \E d \in DOMAIN documents :
          /\ documents[d] # <<>>
          /\ ui' = [ui EXCEPT !.pending_delete = Pending(d), !.clicked = "delete",
                              !.pw = <<>>]
    /\ UNCHANGED <<disk, memory, pc, frame, ret, issued, deletedOk, idsIssued,
                   spc, sframe, sret, sg>>

\* A run in which the confirmation's yes button was clicked, pw being the
\* content of the password field.
UiConfirmYes ==
    /\ pc = "idle"
    /\ spc = "idle"
    /\ KnowledgeShown
    /\ PendingTruthy(ui.pending_delete)
    /\ Len(log) < MaxLog
    /\ \E pw \in TypedPasswords :
          IF PasswordRejected(ui.required, pw)
          THEN /\ ui' = [ui EXCEPT !.clicked = "confirm_yes", !.pw = pw]
               /\ UNCHANGED <<disk, memory, ret, deletedOk>>
          ELSE /\ DeleteCall(ui.pending_delete.id)
               /\ ui' = [ui EXCEPT !.pending_delete = NoPending,
                                   !.clicked = "confirm_yes", !.pw = pw]
    /\ UNCHANGED <<pc, frame, issued, idsIssued, spc, sframe, sret, sg>>

\* A run in which the confirmation's no button was clicked.
UiConfirmNo ==
    /\ pc = "idle"
    /\ spc = "idle"
    /\ KnowledgeShown
    /\ PendingTruthy(ui.pending_delete)
    /\ ui' = [ui EXCEPT !.pending_delete = NoPending, !.clicked = "confirm_no",
                        !.pw = <<>>]
    /\ UNCHANGED <<disk, memory, pc, frame, ret, issued, deletedOk, idsIssued,
                   spc, sframe, sret, sg>>

\* A fresh store in a process with any of the DELETE_PASSWORD settings.
InitUi ==
    /\ rootExists = TRUE
    /\ docDirs = {}
    /\ chunkFiles = EmptyFn
    /\ indexFile = AbsentFile
    /\ mapFile = AbsentFile
    /\ log = <<>>
    /\ index = NoIndex
    /\ id_map = EmptyFn
    /\ documents = EmptyFn
    /\ pc = "idle"
    /\ frame = NoFrame
    /\ ret = NoRet
    /\ issued = 0
    /\ deletedOk = {}
    /\ idsIssued = 0
    /\ spc = "idle"
    /\ sframe = NoSFrame
    /\ sret = <<>>
    /\ sg = NoSg
    /\ ui \in {[NoUi EXCEPT !.required = r] : r \in DeletePasswords}

\* --------------------------------------------------------- specifications

\* The steps of add_document and delete_document.
Mutate ==
    \/ AddDocument
    \/ AddDocumentRaises
    \/ AddWriteChunks
    \/ AddEmbed
    \/ AddIndex
    \/ AddMap
    \/ SaveIndexFile
    \/ SaveMapFile
    \/ AddFinish
    \/ DeleteUnknown
    \/ DeleteDocument
    \/ DelMap
    \/ DelRmtree
    \/ DelFinish

\* One thread: calls one after the other, restarts between calls.
Next == Mutate \/ Search \/ Reload

Spec == Init /\ [][Next]_vars

\* The same with the process dying inside a call.
NextCrash == Mutate \/ Reload \/ Crash

SpecCrash == Init /\ [][NextCrash]_vars

\* Calls, restarts and crashes, with searches between the calls.
NextCrashSearch == Mutate \/ Reload \/ Crash \/ Search

SpecCrashSearch == Init /\ [][NextCrashSearch]_vars

\* A search thread beside the thread that mutates.
NextConc ==
    \/ Mutate
    \/ SearchStart
    \/ SearchIndexStep
    \/ SearchLoopStep
    \/ SearchReturn

SpecConc == Init /\ [][NextConc]_vars

\* _match_filters called on each chunk and filter dict.
NextFilter == MatchFiltersCall

SpecFilter == InitFilter /\ [][NextFilter]_vars

\* Searches and deletions on the larger store.
NextSearch ==
    \/ Search
    \/ DeleteUnknown
    \/ DeleteDocument
    \/ DelMap
    \/ SaveIndexFile
    \/ SaveMapFile
    \/ DelRmtree
    \/ DelFinish

SpecSearch == InitSearch /\ [][NextSearch]_vars

\* Calls and restarts, with exports between the calls.
NextExport == Mutate \/ Reload \/ ExportAll

SpecExport == Init /\ [][NextExport]_vars

\* Calls and restarts, with questions answered between the calls.
NextAnswer == Mutate \/ Reload \/ AnswerQuestion

SpecAnswer == Init /\ [][NextAnswer]_vars

\* Two sessions adding documents through the one cached manager.
NextTwoAdds ==
    \/ AddDocument
    \/ AddWriteChunks
    \/ AddEmbed
    \/ AddIndex
    \/ AddMap
    \/ SaveIndexFile
    \/ SaveMapFile
    \/ AddFinish
    \/ OtherAddDocument
    \/ OtherAddWriteChunks
    \/ OtherAddEmbed
    \/ OtherAddIndex
    \/ OtherAddMap
    \/ OtherSaveIndexFile
    \/ OtherSaveMapFile
    \/ OtherAddFinish

SpecTwoAdds == Init /\ [][NextTwoAdds]_vars

\* The knowledge list of one session, beside calls made by other sessions.
NextUi == Mutate \/ UiClickDelete \/ UiConfirmYes \/ UiConfirmNo

SpecUi == InitUi /\ [][NextUi]_vars

\* ------------------------------------------------------------------ claims

\* The doc_id a mapping names and its offset.
MapDocs == {SplitDoc(id_map[j]) : j \in DOMAIN id_map}

C2_DeletedNeverReturned ==
    /\ MapDocs \cap deletedOk = {}
    /\ ret.op = "search" =>
          \A i \in 1..Len(ret.items) : ret.items[i].doc_id \notin deletedOk

\* C2 witness: a search returns something after a document that had been
\* indexed was deleted.
C2_Witness ==
    /\ ret.op = "search"
    /\ Len(ret.items) >= 1
    /\ \E d \in deletedOk : \E i \in 1..Len(log) :
          log[i].action = "add_document" /\ log[i].doc_id = d

\* C3 (the claim as stated): the ids an add receives start at the number of ids
\* handed out so far, so that no id is handed out twice.
C3_IdsNeverReused ==
    pc = "add_map" => frame.start_id = idsIssued - Len(frame.vectors)

\* C4: search returns at most k items and each names a cached document.
C4_AtMostKFromCache ==
    ret.op = "search" =>
        /\ Len(ret.items) <= ret.k
        /\ \A i \in 1..Len(ret.items) : ret.items[i].doc_id \in DOMAIN documents

\* C4 witness: search returned k items from an index holding more than k entries.
C4_Witness ==
    /\ ret.op = "search"
    /\ Len(ret.items) = ret.k
    /\ Len(index.ents) > ret.k

\* C5 (the claim as stated): a restart between two calls gives the same
\* document cache, index and id_map as before it.
C5_ReloadKeepsStore ==
    [][(pc = "idle" /\ ret'.op = "load") =>
          (index' = index /\ id_map' = id_map /\ documents' = documents)]_vars

\* C6 (the claim as stated): after an add_document or delete_document that
\* returned, the cache holds what the chunks.jsonl files on disk hold.
C6_CacheAgreesWithDisk ==
    (pc = "idle" /\ ret.op \in {"add_document", "delete_document"} /\ ret.val # "raise")
        => documents = LoadedDocuments(chunkFiles)

\* C7 (the claim as stated): a manager loaded after the process died inside a
\* call has an index whose ids are the keys of its id_map.
C7_PairAtomicOnCrash ==
    (ret.op = "load" /\ ret.val = "ok") => IndexIds(index) = DOMAIN id_map

\* The ids mapped to chunk i of document d.
IdsOf(d, i) == {j \in DOMAIN id_map : id_map[j] = Mapping(d, i)}

FullyPresent(d) ==
    /\ d \in docDirs
    /\ d \in DOMAIN documents
    /\ \A i \in 0..(Len(documents[d]) - 1) :
          /\ Cardinality(IdsOf(d, i)) = 1
          /\ Cardinality({n \in 1..Len(index.ents) : index.ents[n].id \in IdsOf(d, i)}) = 1

FullyAbsent(d) ==
    /\ d \notin docDirs
    /\ d \notin DOMAIN documents
    /\ d \notin MapDocs

\* C8 (the claim as stated): after a restart, wherever the process stopped,
\* every document is fully present or fully absent.
C8_DocumentAtomicOnCrash ==
    (ret.op = "load" /\ ret.val = "ok") =>
        \A n \in 1..issued : FullyPresent(Uuid(n)) \/ FullyAbsent(Uuid(n))

\* search on a snapshot, with the arguments of the search thread
SearchOn(snap) ==
    SearchResult(snap.index, snap.id_map, snap.documents, sframe.qv, sframe.k,
                 sframe.filters)

\* C9 (the claim as stated): a search overlapped by one add_document or
\* delete_document returns what it would on the store before that call or on
\* the store after it.
C9_SearchSeesBeforeOrAfter ==
    (spc = "done" /\ sg.ov = 1 /\ sg.closed) =>
        sret \in {SearchOn(sg.pre), SearchOn(sg.post)}

\* C10 (the claim as stated): loading with kb.faiss or id_map.pkl missing or
\* unreadable does not raise, leaves index and id_map empty and loads every
\* chunks.jsonl.
C10_LoadToleratesBadArtifacts ==
    (ret.op = "load" /\ (ret.items[1] # "ok" \/ ret.items[2] # "ok")) =>
        /\ ret.val = "ok"
        /\ index = NoIndex
        /\ id_map = EmptyFn
        /\ documents = LoadedDocuments(chunkFiles)

\* C11 (the claim as stated): delete_document goes past its not-found test only
\* for the id of a stored document, a call that returns False leaves the disk
\* (directories, files, log) and the index, id_map and cache as they were, and
\* a call that went past the test returns True.
C11_DeleteUnknownIsNoop ==
    [][/\ (pc = "idle" /\ pc' \in {"del_map", "del_rmtree"}) => frame'.doc_id \in docDirs
       /\ (pc = "idle" /\ ret'.op = "delete_document" /\ ret'.val = "false")
             => UNCHANGED <<disk, memory>>
       /\ (pc = "del_cache" /\ pc' = "idle") => ret'.val = "true"]_vars

\* The ids whose mapping names document d.
IdsNaming(m, d) == {j \in DOMAIN m : SplitDoc(m[j]) = d}

\* The index entries stored under id j, in their order.
EntriesOf(ix, j) == SelectSeq(ix.ents, LAMBDA e : e.id = j)

\* C12 (the claim as stated): when delete_document(d) returns, every other
\* document that was stored when it was called still has its directory and
\* chunks.jsonl, its cache entry, its id_map entries and its index entries.
C12_DeleteTouchesOnlyItsDocument ==
    [][(pc = "del_cache" /\ pc' = "idle") =>
          \A d \in DOMAIN frame.pre.documents \ {frame.doc_id} :
             /\ d \in docDirs'
             /\ d \in DOMAIN chunkFiles'
             /\ d \in DOMAIN documents'
             /\ documents'[d] = frame.pre.documents[d]
             /\ \A j \in IdsNaming(frame.pre.id_map, d) :
                   /\ j \in DOMAIN id_map'
                   /\ id_map'[j] = frame.pre.id_map[j]
                   /\ EntriesOf(index', j) = EntriesOf(frame.pre.index, j)]_vars

\* The chunk has an expiration date: the key is there and holds a non-empty
\* string (not None, not "").
HasDate(meta) ==
    /\ "expiration_date" \in DOMAIN meta
    /\ meta["expiration_date"] # NoneVal
    /\ meta["expiration_date"].s # <<>>

\* The table of exclusion conditions, key by key, as the filter is specified.
TableExcludes(chunk, key, value) ==
    LET meta == chunk.metadata
        exp  == IF "expiration_date" \in DOMAIN meta THEN meta["expiration_date"].s
                ELSE <<>>
        tags == IF "ai_tags" \in DOMAIN meta THEN meta["ai_tags"].l ELSE <<>>
        given == IF value.isStr THEN <<value.s>> ELSE value.l
    IN  CASE key = "expiration_date_gt" ->
               ~HasDate(meta) \/ StrLe(exp, value.s)
          [] key = "expiration_date_start" ->
               HasDate(meta) /\ StrLt(exp, value.s)
          [] key = "expiration_date_end" ->
               HasDate(meta) /\ StrLt(value.s, exp)
          [] key = "author" -> ~("author" \in DOMAIN meta /\ meta["author"] = value)
          [] key = "tag" ->
               ~\E i \in 1..Len(given) : \E j \in 1..Len(tags) : given[i] = tags[j]
          [] key = "keyword" -> ~Contains(Lower(chunk.text), Lower(value.s))
          [] OTHER -> ~(key \in DOMAIN meta /\ meta[key] = value)

\* The same dict with its keys inserted in the opposite order.
Reverse(f) == [i \in 1..Len(f) |-> f[Len(f) + 1 - i]]

\* A _match_filters call has returned; its chunk, its filters, its result.
Matched == ret.op = "_match_filters" /\ ret.val # "none"

\* C13 (the claim as stated): _match_filters returns True exactly when no
\* provided key excludes the chunk by the table, gives the same answer with
\* the keys in the opposite order, and returns True for an empty filter.
C13_FilterIsConjunction ==
    Matched =>
        LET chunk == ret.items[1]
            f == ret.items[2]
        IN  /\ (ret.val = "true") <=>
                  \A i \in 1..Len(f) : ~TableExcludes(chunk, f[i].key, f[i].value)
            /\ (ret.val = "true") <=> MatchFilters(chunk, Reverse(f))
            /\ f = <<>> => ret.val = "true"

\* The keys of dict f.
KeysOf(f) == {f[i].key : i \in 1..Len(f)}

\* The value dict f holds under key.
ValueOf(f, key) == f[CHOOSE i \in 1..Len(f) : f[i].key = key].value

\* C14: a filter holding expiration_date_gt excludes every chunk whose
\* expiration_date is absent or <= the cutoff as strings; a filter of
\* expiration_date_start alone excludes only chunks whose date is present and
\* < start, one of expiration_date_end alone only chunks whose date is present
\* and > end; a chunk without expiration_date passes start, end and both.
C14_ExpirationAsymmetry ==
    Matched =>
        LET meta == ret.items[1].metadata
            f == ret.items[2]
            exp == IF "expiration_date" \in DOMAIN meta THEN meta["expiration_date"].s
                   ELSE <<>>
            has == HasDate(meta)
        IN  /\ ("expiration_date_gt" \in KeysOf(f)
                  /\ (~has \/ StrLe(exp, ValueOf(f, "expiration_date_gt").s)))
                  => ret.val = "false"
            /\ (KeysOf(f) = {"expiration_date_gt"} /\ ret.val = "false")
                  => (~has \/ StrLe(exp, ValueOf(f, "expiration_date_gt").s))
            /\ (KeysOf(f) = {"expiration_date_start"} /\ ret.val = "false")
                  => (has /\ StrLt(exp, ValueOf(f, "expiration_date_start").s))
            /\ (KeysOf(f) = {"expiration_date_end"} /\ ret.val = "false")
                  => (has /\ StrLt(ValueOf(f, "expiration_date_end").s, exp))
            /\ (~has /\ f # <<>>
                  /\ KeysOf(f) \subseteq {"expiration_date_start", "expiration_date_end"})
                  => ret.val = "true"

\* C14 witness: a chunk without expiration_date has passed a filter holding both
\* expiration_date_start and expiration_date_end.
C14_Witness ==
    /\ Matched
    /\ "expiration_date" \notin DOMAIN ret.items[1].metadata
    /\ KeysOf(ret.items[2]) = {"expiration_date_start", "expiration_date_end"}
    /\ ret.val = "true"

\* The keys _match_filters has a branch for.
RecognizedKeys == {"expiration_date_gt", "expiration_date_start", "expiration_date_end",
                   "author", "tag", "keyword"}

\* C15 (the claim as stated): with one key that is not a recognized one, the
\* chunk passes exactly when its metadata holds the key with an equal value.
C15_GenericKeyExactEquality ==
    (Matched /\ Len(ret.items[2]) = 1 /\ ret.items[2][1].key \notin RecognizedKeys) =>
        LET meta == ret.items[1].metadata
            key == ret.items[2][1].key
        IN  (ret.val = "true") <=> (key \in DOMAIN meta /\ meta[key] = ret.items[2][1].value)

\* The chunk the index entry at position p leads to through id_map and the cache.
ChunkAt(p) ==
    LET mapping == id_map[index.ents[p].id]
    IN  documents[SplitDoc(mapping)][SplitIndex(mapping) + 1]

\* What the claim says search(query, k, filters) returns on the present store:
\* of the k * 5 nearest entries (by distance, earlier-added first among equal
\* distances) those whose chunk passes the filter, in that order, cut after k.
SearchExpected(qv, k, filters) ==
    LET m == Len(index.ents)
        d == [p \in 1..m |-> Dist(index.ents[p].vec, qv)]
        nearer(q, p) == d[q] < d[p] \/ (d[q] = d[p] /\ q < p)
        sampled == {p \in 1..m :
                      Cardinality({q \in 1..m : nearer(q, p)}) < k * OversampleFactor}
        passing == {p \in sampled : MatchFilters(ChunkAt(p), filters)}
        n == IF Cardinality(passing) < k THEN Cardinality(passing) ELSE k
        at(r) == CHOOSE p \in passing : Cardinality({q \in passing : nearer(q, p)}) = r - 1
    IN  [r \in 1..n |-> [text |-> ChunkAt(at(r)).text,
                         metadata |-> ChunkAt(at(r)).metadata,
                         score |-> d[at(r)],
                         doc_id |-> SplitDoc(id_map[index.ents[at(r)].id])]]

\* C16: the list search returns is the first k filter-passing chunks among the
\* k * 5 nearest index entries, nearest first and earlier-added first among
\* equal distances, each with its distance as score and its doc_id; fewer than
\* k when fewer of the sampled entries pass.
C16_SearchFirstKOfSample ==
    ret.op = "search" => ret.items = SearchExpected(ret.args[1], ret.k, ret.args[2])

\* C16 witness: search has returned fewer than k items although an entry
\* outside the k * 5 sampled ones holds a chunk that passes the filter.
C16_Witness ==
    /\ ret.op = "search"
    /\ Len(ret.items) < ret.k
    /\ Len(index.ents) > ret.k * OversampleFactor
    /\ \E p \in 1..Len(index.ents) : MatchFilters(ChunkAt(p), ret.args[2])

\* Every vector in the index is the service's vector of its chunk's text: no
\* embedding call of an add fell back.
IdentityEmbedded ==
    \A p \in 1..Len(index.ents) : index.ents[p].vec = ServiceVec(ChunkAt(p).text)

\* The documents add_document has logged and no delete_document(d) has removed.
AddedNotDeleted ==
    {log[i].doc_id : i \in {n \in 1..Len(log) : log[n].action = "add_document"}}
        \ deletedOk

\* C17 (the claim as stated): with every stored vector the service's, a search
\* without filters whose query vector is that of the text of chunk i of a
\* document added and not deleted returns that chunk (its text under its
\* doc_id), for k = 1 as for any k.
C17_ExactTextIsFound ==
    (ret.op = "search" /\ ret.args[2] = <<>> /\ IdentityEmbedded) =>
        \A d \in AddedNotDeleted :
           /\ d \in DOMAIN documents
           /\ \A i \in 1..Len(documents[d]) :
                 ret.args[1] = ServiceVec(documents[d][i].text) =>
                    \E r \in 1..Len(ret.items) :
                       /\ ret.items[r].doc_id = d
                       /\ ret.items[r].text = documents[d][i].text

\* The index entries a running add_document has appended.
NewEntries == SubSeq(index.ents, Len(frame.pre.index.ents) + 1, Len(index.ents))

\* The id_map keys a running add_document has added.
NewIds == DOMAIN id_map \ DOMAIN frame.pre.id_map

\* C18: when add_document with N >= 1 chunks has registered its vectors,
\* whichever embedding calls failed, the index holds the entries it held plus
\* exactly N new ones, id_map holds exactly N new keys, each offset 0..N-1 is
\* mapped by exactly one of them, and the vector stored for a chunk is the
\* service's vector or the fallback vector of that chunk's text.
C18_EmbeddingFailureKeepsChunks ==
    pc = "add_cache" =>
        LET N == Len(frame.chunks)
        IN  /\ N >= 1
            /\ Len(index.ents) = Len(frame.pre.index.ents) + N
            /\ SubSeq(index.ents, 1, Len(frame.pre.index.ents)) = frame.pre.index.ents
            /\ Cardinality(NewIds) = N
            /\ \A i \in 0..(N - 1) :
                  LET js == {j \in NewIds : id_map[j] = Mapping(frame.doc_id, i)}
                  IN  /\ Cardinality(js) = 1
                      /\ \A j \in js :
                            /\ Len(EntriesOf(index, j)) = 1
                            /\ EntriesOf(index, j)[1].vec \in
                                  {ServiceVec(frame.chunks[i + 1].text),
                                   FallbackVec(frame.chunks[i + 1].text)}

\* C18 witness: an add_document of two chunks has registered both, the first
\* embedded by the service and the second by the fallback.
C18_Witness ==
    /\ pc = "add_cache"
    /\ Len(frame.chunks) = 2
    /\ frame.vectors[1] = ServiceVec(frame.chunks[1].text)
    /\ frame.vectors[2] = FallbackVec(frame.chunks[2].text)
    /\ frame.vectors[2] # ServiceVec(frame.chunks[2].text)

\* C19: when add_document with N >= 1 chunks has registered its vectors, the
\* new ids are the N consecutive integers from the largest id the map held + 1
\* (from 0 when it was empty), the id at position i is mapped to "doc_id/i" and
\* is the id of the i-th new index entry, and every entry the map held before
\* is still there with its mapping.
C19_ContiguousBlockAfterMax ==
    pc = "add_cache" =>
        LET N == Len(frame.chunks)
            old == frame.pre.id_map
            first == IF DOMAIN old = {} THEN 0
                     ELSE (CHOOSE j \in DOMAIN old : \A h \in DOMAIN old : h <= j) + 1
        IN  /\ NewIds = first..(first + N - 1)
            /\ \A i \in 0..(N - 1) :
                  /\ id_map[first + i] = Mapping(frame.doc_id, i)
                  /\ NewEntries[i + 1].id = first + i
            /\ \A j \in DOMAIN old : j \in DOMAIN id_map /\ id_map[j] = old[j]

\* C19 witness: two chunks have been registered in a map that held entries.
C19_Witness ==
    /\ pc = "add_cache"
    /\ Len(frame.chunks) = 2
    /\ DOMAIN frame.pre.id_map # {}

\* C20: while add_document runs on an empty chunk list and when it returns, the
\* index, id_map and the document cache are what they were when it was called.
C20_EmptyAddIsNoop ==
    [][(pc \in {"add_chunks", "add_embed"} /\ frame.chunks = <<>>) =>
          /\ Snap(index', id_map', documents') = frame.pre
          /\ pc' \in {"add_embed", "idle"}]_vars

\* C20 witness: an add_document with no chunks has returned on a store that
\* holds a document.
C20_Witness ==
    /\ pc = "idle"
    /\ ret.op = "add_document"
    /\ issued >= 1
    /\ \A i \in 1..Len(log) : log[i].doc_id # Uuid(issued)
    /\ DOMAIN id_map # {}

\* C21: every search returns a list, never raises, and the list is empty when
\* there is no index or the document cache is empty; in every store state
\* that calls, restarts and crashes lead to.
C21_SearchReturnsList ==
    ret.op = "search" =>
        /\ ret.val = "list"
        /\ SearchEmpty(index, documents) => ret.items = <<>>

\* C21 witness: a search has returned on a manager whose restart discarded the
\* index files of a completed add_document, the cache still holding chunks.
C21_Witness ==
    /\ ret.op = "search"
    /\ ret.val = "list"
    /\ index.isNone
    /\ indexFile.st = "absent"
    /\ \E i \in 1..Len(log) : log[i].action = "add_document"
    /\ \E d \in DOMAIN documents : Len(documents[d]) >= 1

\* json.loads of a line of the export file.
ExportLoads(line) ==
    [doc_id |-> line.doc_id,
     text |-> line.text,
     metadata |-> [k \in {p[1] : p \in line.members} |->
                     (CHOOSE p \in line.members : p[1] = k)[2]]]

RECURSIVE ChunkCount(_, _)
ChunkCount(docs, ds) ==
    IF ds = {} THEN 0
    ELSE LET d == CHOOSE x \in ds : TRUE
         IN Len(docs[d]) + ChunkCount(docs, ds \ {d})

\* The lines hold one record per chunk, each document's records together and
\* in the order of its chunks.
ExportedExactly(lines, docs) ==
    /\ Len(lines) = ChunkCount(docs, DOMAIN docs)
    /\ \A d \in DOMAIN docs :
          \E s \in 0..Len(lines) :
             /\ s + Len(docs[d]) <= Len(lines)
             /\ \A i \in 1..Len(docs[d]) :
                   ExportLoads(lines[s + i]) =
                       [doc_id |-> d, text |-> docs[d][i].text,
                        metadata |-> docs[d][i].metadata]
             /\ \A p \in 1..Len(lines) :
                   ExportLoads(lines[p]).doc_id = d => p \in (s + 1)..(s + Len(docs[d]))

\* C22: export_all writes one record {doc_id, text, metadata} per chunk of
\* every cached document, each chunk once, grouped by document and in chunk
\* order, and changes neither the index, id_map, the cache nor anything stored.
C22_ExportWritesEveryChunkOnce ==
    [][(ret'.op = "export_all" /\ ret' # ret)
          => /\ ExportedExactly(ret'.items, documents)
             /\ UNCHANGED <<disk, memory>>]_vars

\* C22 witness: an export of a cache holding two documents, one of two chunks.
C22_Witness ==
    /\ ret.op = "export_all"
    /\ Cardinality(DOMAIN documents) = 2
    /\ \E d \in DOMAIN documents : Len(documents[d]) = 2
    /\ Len(ret.items) >= 3

\* C23 (the claim as stated): an add_document that returns with its document
\* stored and a delete_document that returns true each append exactly one audit
\* entry naming the doc_id, a delete_document that returns false appends none,
\* and add_document hands its caller a success/failure value.
C23_MutationsAuditedAndSignalled ==
    [][/\ (pc # "idle" /\ pc' = "idle" /\ ret'.op = "add_document"
              /\ ret'.val # "raise" /\ frame.doc_id \in docDirs')
          => /\ log' = Append(log, [action |-> "add_document", doc_id |-> frame.doc_id])
             /\ ret'.val \in {"true", "false"}
       /\ (pc # "idle" /\ pc' = "idle" /\ ret'.op = "delete_document"
              /\ ret'.val = "true")
          => log' = Append(log, [action |-> "delete_document", doc_id |-> frame.doc_id])
       /\ (pc = "idle" /\ pc' = "idle" /\ ret'.op = "delete_document"
              /\ ret'.val = "false")
          => log' = log]_vars

\* C24 (the claim as stated): answer_question lets no failure of the answer
\* generation out: with no chunk retrieved it returns the fixed no-information
\* answer with empty sources and does not call the language model, and when the
\* language-model call fails in any way it returns the sentinel failure message
\* with the sources of the retrieved chunks.
C24_AnswerNeverPropagates ==
    ret.op = "answer_question" =>
        /\ ret.val # "raise"
        /\ ret.args[2] = <<>> =>
              (ret.val = "no_info" /\ ret.items = <<>> /\ ret.args[1] = "not_called")
        /\ ret.args[1] \in {"api_error", "no_content"} =>
              (ret.val = "sentinel" /\ ret.items = Sources(ret.args[2]))

\* C25: search is read-only: whatever the query, k and filters, a search
\* leaves the index, id_map and the document cache as they were, and no cached
\* chunk gains the score or doc_id key of the returned items.
C25_SearchIsReadOnly ==
    [][(ret'.op = "search" /\ ret' # ret)
          => /\ index' = index
             /\ id_map' = id_map
             /\ documents' = documents
             /\ \A d \in DOMAIN documents' : \A i \in 1..Len(documents'[d]) :
                   DOMAIN documents'[d][i] \cap {"score", "doc_id"} = {}]_vars

\* C25 witness: a search has returned two items, each carrying score and
\* doc_id, from a cache whose chunks have neither key.
C25_Witness ==
    /\ ret.op = "search"
    /\ ret.val = "list"
    /\ Len(ret.items) = 2
    /\ \A i \in 1..Len(ret.items) : {"score", "doc_id"} \subseteq DOMAIN ret.items[i]
    /\ \A d \in DOMAIN documents : \A i \in 1..Len(documents[d]) :
          DOMAIN documents[d][i] \cap {"score", "doc_id"} = {}

\* No mapping of m names document d.
NoEntryFor(m, d) == \A j \in DOMAIN m : SplitDoc(m[j]) # d

\* C26: delete_document(d) for a document whose directory exists and which no
\* index entry names goes straight to removing the directory, returns true
\* with the directory and the cache entry gone, and at no step changes the
\* index, id_map or the two index files.
C26_DeleteWithoutEntries ==
    [][/\ (pc = "idle" /\ pc' # "idle" /\ frame'.cont = "del_rmtree"
              /\ frame'.doc_id # <<>> /\ NoEntryFor(id_map, frame'.doc_id))
          => /\ pc' = "del_rmtree"
             /\ UNCHANGED <<index, id_map, indexFile, mapFile>>
       /\ (pc # "idle" /\ frame.cont = "del_rmtree" /\ ret'.op # "load"
              /\ frame.doc_id # <<>> /\ NoEntryFor(frame.pre.id_map, frame.doc_id))
          => /\ UNCHANGED <<index, id_map, indexFile, mapFile>>
             /\ pc' = "idle" =>
                   /\ ret'.op = "delete_document"
                   /\ ret'.val = "true"
                   /\ frame.doc_id \notin docDirs'
                   /\ frame.doc_id \notin DOMAIN documents']_vars

\* C26 witness: the call that just returned true deleted a document that no
\* completed add_document had registered, beside an index that holds entries.
C26_Witness ==
    /\ pc = "idle"
    /\ ret.op = "delete_document"
    /\ ret.val = "true"
    /\ log # <<>>
    /\ log[Len(log)].action = "delete_document"
    /\ log[Len(log)].doc_id # <<>>
    /\ \A i \in 1..Len(log) :
          ~(log[i].action = "add_document" /\ log[i].doc_id = log[Len(log)].doc_id)
    /\ DOMAIN id_map # {}

\* C27 (the claim as stated): add_document calls of two sessions that overlap
\* never take the same integer id: once both have returned, every chunk of
\* every added document has its one id_map entry, none overwritten by the
\* other call.
C27_OverlappingAddsKeepEntries ==
    (pc = "idle" /\ spc = "idle") =>
        \A d \in DOMAIN documents : \A i \in 1..Len(documents[d]) :
            Cardinality(IdsOf(d, i - 1)) = 1

\* The stored documents, the index and everything on disk.
Store == <<disk, memory>>

\* C28: in the knowledge list a document is deleted only in a confirm-yes run,
\* only the one held in pending_delete, and, when DELETE_PASSWORD is set, only
\* with that password typed; a confirm-yes with a wrong password changes
\* nothing and keeps pending_delete, and the no button clears pending_delete
\* and changes nothing.
C28_DeleteOnlyAfterConfirm ==
    [][ui' # ui =>
          /\ Store' # Store =>
                /\ ui'.clicked = "confirm_yes"
                /\ PendingTruthy(ui.pending_delete)
                /\ docDirs' = docDirs \ {ui.pending_delete.id}
                /\ DOMAIN documents' = DOMAIN documents \ {ui.pending_delete.id}
                /\ \A d \in DOMAIN documents' : documents'[d] = documents[d]
                /\ \A j \in DOMAIN id_map :
                      IF SplitDoc(id_map[j]) = ui.pending_delete.id
                      THEN j \notin DOMAIN id_map'
                      ELSE j \in DOMAIN id_map' /\ id_map'[j] = id_map[j]
                /\ Truthy(ui.required) => ui'.pw = ui.required.s
          /\ (ui'.clicked = "confirm_yes" /\ Truthy(ui.required)
                 /\ ui'.pw # ui.required.s)
                => /\ Store' = Store
                   /\ ui'.pending_delete = ui.pending_delete
                   /\ PendingTruthy(ui'.pending_delete)
          /\ ui'.clicked = "confirm_no"
                => /\ Store' = Store
                   /\ ui'.pending_delete = NoPending]_vars

\* C28 witness: with DELETE_PASSWORD set, the session's confirm-yes with the
\* right password has just deleted the pending document and left another one.
C28_Witness ==
    /\ Truthy(ui.required)
    /\ ui.clicked = "confirm_yes"
    /\ ui.pw = ui.required.s
    /\ ui.pending_delete = NoPending
    /\ ret.op = "delete_document"
    /\ ret.val = "true"
    /\ DOMAIN documents # {}
    /\ deletedOk # {}

====
